---- MODULE Spec2Model ----
(***************************************************************************)
(* Preseed composition of maasserver/compose_preseed.py.                   *)
(*                                                                         *)
(* A text (Python str) is a sequence of symbols.  A symbol is a TLA+       *)
(* string: either one character that some operation of the module looks    *)
(* at (space, tab, newline, backslash, the punctuation make_clean_repo_name *)
(* deletes, an upper-case letter, a digit, "_") or an atom standing for a   *)
(* fixed run of lower-case letters, digits and URL punctuation that no      *)
(* operation looks into ("http://", "ppa.launchpad.net", "main").          *)
(* A Python dict is a function; a key is present iff it is in the DOMAIN.   *)
(***************************************************************************)
EXTENDS Integers, Sequences, FiniteSets, TLC

\* ------------------------------------------------------------------ bounds
MaxNameLen == 2
MaxProxyLen == 2
MaxDistributions == 2
MaxEscapeLen == 3
MaxComponents == 2

\* --------------------------------------------------------- text operations
Whitespace == {" ", "\t", "\n"}

\* the concatenation of a sequence of texts (halving keeps the recursion shallow)
RECURSIVE Concat(_)
Concat(texts) ==
    IF texts = <<>> THEN <<>>
    ELSE IF Len(texts) = 1 THEN texts[1]
    ELSE LET h == Len(texts) \div 2
         IN  Concat(SubSeq(texts, 1, h)) \o Concat(SubSeq(texts, h + 1, Len(texts)))

RECURSIVE SeqsUpTo(_, _)
SeqsUpTo(S, n) ==
    IF n = 0 THEN {<<>>}
    ELSE LET shorter == SeqsUpTo(S, n - 1)
         IN  shorter \cup {Append(s, x) : s \in {t \in shorter : Len(t) = n - 1}, x \in S}

\* str.isspace(): non-empty and all whitespace
isspace(s) == s # <<>> /\ \A i \in DOMAIN s : s[i] \in Whitespace

RECURSIVE lstrip(_)
lstrip(s) == IF s # <<>> /\ Head(s) \in Whitespace THEN lstrip(Tail(s)) ELSE s

RECURSIVE rstrip(_)
rstrip(s) ==
    IF s # <<>> /\ s[Len(s)] \in Whitespace THEN rstrip(SubSeq(s, 1, Len(s) - 1)) ELSE s

\* str.strip()
strip(s) == rstrip(lstrip(s))

\* str.replace(old, new) for a one-character old
replace(s, old, new) ==
    Concat([i \in DOMAIN s |-> IF s[i] = old THEN new ELSE <<s[i]>>])

\* str.translate({ord(c): None for c in chars})
translate_delete(s, chars) == SelectSeq(s, LAMBDA c : c \notin chars)

UpperCase == {"A", "B"}
LowerOf == [c \in UpperCase |-> IF c = "A" THEN "a" ELSE "b"]

\* str.lower()
lower(s) == [i \in DOMAIN s |-> IF s[i] \in UpperCase THEN LowerOf[s[i]] ELSE s[i]]

DigitChar == <<"0", "1", "2", "3", "4", "5", "6", "7", "8", "9">>

\* "%s" / "%d" of a non-negative integer
RECURSIVE str_int(_)
str_int(n) ==
    IF n < 10 THEN <<DigitChar[n + 1]>>
    ELSE Append(str_int(n \div 10), DigitChar[(n % 10) + 1])

startswith(s, prefix) ==
    Len(s) >= Len(prefix) /\ SubSeq(s, 1, Len(prefix)) = prefix

\* `sub in s`
contains(s, sub) ==
    \E i \in 0..(Len(s) - Len(sub)) : SubSeq(s, i + 1, i + Len(sub)) = sub

\* Optional values (None or a value)
None == [isNone |-> TRUE, text |-> <<>>]
Some(t) == [isNone |-> FALSE, text |-> t]
\* Python truthiness of an optional text
Truthy(o) == ~o.isNone /\ o.text # <<>>

EmptyDict == [k \in {} |-> <<>>]
\* dict.update(new): the new keys win
update(old, new) == new @@ old

\* ------------------------------------------------- enumerations and inputs
COMMISSIONING == "commissioning"
CURTIN == "curtin"
DEFAULT == "default"
PRESEED_TYPE == {COMMISSIONING, CURTIN, DEFAULT}

ENTERING_RESCUE_MODE == "ENTERING_RESCUE_MODE"
DISK_ERASING == "DISK_ERASING"
NODE_STATUS == {"COMMISSIONING", "DEPLOYING", DISK_ERASING, ENTERING_RESCUE_MODE}

\* Default port for RSYSLOG
RSYSLOG_PORT == 514
\* timedelta(hours=1).total_seconds() and timedelta(days=7).total_seconds()
POWEROFF_TIMEOUT_HOUR == 3600
POWEROFF_TIMEOUT_WEEK == 604800

PoweroffCondition == <<"test", " ", "!", " ", "-e", " ", "/tmp/block-poweroff">>
CloudConfigMarker == <<"#cloud-config">>

\* The machine's credential triple (NodeKey.objects.get_token_for_node)
Token == [consumer_key |-> <<"ck">>, key |-> <<"tk">>, secret |-> <<"ts">>]

\* ------------------------------------------------ external collaborators
\* get_maas_facing_server_host(node.get_boot_rack_controller())
get_maas_facing_server_host(node) == node.rack_host

\* rack_controller.url
rack_url(node) == <<"http://">> \o node.rack_host \o <<":5240">>

\* absolute_reverse(name, args, base_url): the URL of a named endpoint
absolute_reverse(name, args, base_url) ==
    CASE name = "metadata"        -> base_url \o <<"/MAAS/metadata/">>
      [] name = "curtin-metadata" -> base_url \o <<"/MAAS/metadata/curtin/">>
      [] name = "metadata-status" -> base_url \o <<"/MAAS/metadata/status/">> \o args

\* PackageRepository.get_main_archive().url / get_ports_archive().url
MainArchiveUrl == <<"http://", "archive.ubuntu.com/ubuntu">>
PortsArchiveUrl == <<"http://", "ports.ubuntu.com/ubuntu-ports">>

\* urllib.parse.quote_plus of one symbol
quote_plus(c) ==
    CASE c = " "  -> <<"+">>
      [] c = "\n" -> <<"%0A">>
      [] c = "\\" -> <<"%5C">>
      [] OTHER    -> <<c>>

\* urllib.parse.urlencode of a list of (key, value) pairs
RECURSIVE urlencode(_)
urlencode(pairs) ==
    IF pairs = <<>> THEN <<>>
    ELSE LET p == Head(pairs)
             v == Concat([i \in DOMAIN p[2] |-> quote_plus(p[2][i])])
         IN  <<p[1], "=">> \o v \o
             (IF Tail(pairs) = <<>> THEN <<>> ELSE <<"&">> \o urlencode(Tail(pairs)))

get_apt_proxy_for_node_without_isspace(enable_http_proxy, http_proxy, node) ==
    IF enable_http_proxy
    THEN IF ~http_proxy.isNone /\ Len(http_proxy.text) > 0
         THEN Some(http_proxy.text)
         ELSE Some(<<"http://">> \o get_maas_facing_server_host(node) \o <<":8000/">>)
    ELSE None

\* --------------------------------------------------------- ProxyResolver
get_apt_proxy_for_node(enable_http_proxy, http_proxy, node) ==
    IF enable_http_proxy
    THEN IF ~http_proxy.isNone /\ Len(http_proxy.text) > 0 /\ ~isspace(http_proxy.text)
         THEN Some(http_proxy.text)
         ELSE Some(<<"http://">> \o get_maas_facing_server_host(node) \o <<":8000/">>)
    ELSE None

make_clean_repo_name_without_id(repo) ==
    LET repo_name == translate_delete(repo.name, {"'", "!", "@", "#", "$", "[", "]", "{", "}"})
    IN  lower(replace(strip(repo_name), " ", <<"_">>))

\* --------------------------------------------------- ArchiveNameSanitizer
RepoNamePunctuation == {"'", "!", "@", "#", "$", "[", "]", "{", "}"}

make_clean_repo_name(repo) ==
    LET repo_name == translate_delete(repo.name, RepoNamePunctuation)
                        \o <<"_">> \o str_int(repo.id)
    IN  lower(replace(strip(repo_name), " ", <<"_">>))

repo_components_without_strip(repo) ==
    LET RECURSIVE acc(_)
        acc(cs) == IF cs = <<>> THEN <<>> ELSE Head(cs) \o <<" ">> \o acc(Tail(cs))
    IN  IF repo.components = <<>> THEN <<"main">> ELSE acc(repo.components)

\* ------------------------------------------------ RepositoryConfigBuilder
\* `components` of one generic repository
repo_components(repo) ==
    LET RECURSIVE acc(_)
        acc(cs) == IF cs = <<>> THEN <<>> ELSE Head(cs) \o <<" ">> \o acc(Tail(cs))
    IN  strip(IF repo.components = <<>> THEN <<"main">> ELSE acc(repo.components))

\* `url`: the source value of one additional repository
repo_source(repo, node) ==
    IF startswith(repo.url, <<"ppa:">>)
    THEN repo.url
    ELSE IF contains(repo.url, <<"ppa.launchpad.net">>)
    THEN <<"deb", " ">> \o repo.url \o <<" ">> \o node.distro_series \o <<" ", "main">>
    ELSE LET components == repo_components(repo)
             RECURSIVE lines(_)
             lines(ds) ==
                 IF ds = <<>> THEN <<>>
                 ELSE <<"deb", " ">> \o repo.url \o <<" ">> \o Head(ds) \o <<" ">>
                          \o components \o <<"\n">> \o lines(Tail(ds))
         IN  IF repo.distributions = <<>>
             THEN <<"deb", " ">> \o repo.url \o <<" ">> \o node.distro_series
                      \o <<" ">> \o components
             ELSE lines(repo.distributions)

ArchiveKeyName == <<"archive_key">>

\* the loop over the additional repositories
RECURSIVE add_repositories(_, _, _)
add_repositories(apt, repositories, node) ==
    IF repositories = <<>> THEN apt
    ELSE LET repo == Head(repositories)
             url == repo_source(repo, node)
             apt1 == IF "sources" \notin DOMAIN apt
                     THEN ("sources" :> EmptyDict) @@ apt ELSE apt
             repo_name == make_clean_repo_name(repo)
             entry == IF repo.key # <<>>
                      THEN [key |-> repo.key, source |-> url]
                      ELSE [source |-> url]
             apt2 == [apt1 EXCEPT !["sources"] = update(@, repo_name :> entry)]
         IN  add_repositories(apt2, Tail(repositories), node)

\* get_archive_config given what its lookups returned; archive is configured
get_archive_config(node, preserve_sources, archive, repositories, apt_proxy) ==
    LET apt0 == [preserve_sources_list |-> preserve_sources,
                 primary  |-> <<[arches |-> <<"default">>, uri |-> archive.url]>>,
                 security |-> <<[arches |-> <<"default">>, uri |-> archive.url]>>]
        apt1 == IF archive.disabled_pockets # <<>>
                THEN ("disable_suites" :> archive.disabled_pockets) @@ apt0 ELSE apt0
        apt2 == IF Truthy(apt_proxy) THEN ("proxy" :> apt_proxy.text) @@ apt1 ELSE apt1
        apt3 == IF archive.key # <<>>
                THEN ("sources" :> (ArchiveKeyName :> [key |-> archive.key])) @@ apt2
                ELSE apt2
    IN  [apt |-> add_repositories(apt3, repositories, node)]

get_rsyslog_host_port(node) ==
    get_maas_facing_server_host(node) \o <<":">> \o str_int(RSYSLOG_PORT)

get_system_info ==
    [system_info |->
        [package_mirrors |-> <<
            [arches   |-> <<"i386", "amd64">>,
             search   |-> [primary |-> <<MainArchiveUrl>>, security |-> <<MainArchiveUrl>>],
             failsafe |-> [primary  |-> <<"http://", "archive.ubuntu.com/ubuntu">>,
                           security |-> <<"http://", "security.ubuntu.com/ubuntu">>]],
            [arches   |-> <<"default">>,
             search   |-> [primary |-> <<PortsArchiveUrl>>, security |-> <<PortsArchiveUrl>>],
             failsafe |-> [primary  |-> <<"http://", "ports.ubuntu.com/ubuntu-ports">>,
                           security |-> <<"http://", "ports.ubuntu.com/ubuntu-ports">>]]
        >>]]

reporting_block(node, token, base_url) ==
    [maas |-> [type |-> <<"webhook">>,
               endpoint |-> absolute_reverse("metadata-status", node.system_id, base_url),
               consumer_key |-> token.consumer_key,
               token_key |-> token.key,
               token_secret |-> token.secret]]

\* ---------------------------------------------------------- yaml.safe_dump
\* Block style, keys in sorted order, one line per scalar; the symbols of a
\* scalar are emitted in order, so a newline or a backslash inside a value is
\* a newline or a backslash of the document.
Ind(n) == [i \in 1..n |-> " "]
KV(n, key, text) == Ind(n) \o <<key, ":", " ">> \o text \o <<"\n">>
Hdr(n, key) == Ind(n) \o <<key, ":", "\n">>
dump_bool(b) == IF b THEN <<"true">> ELSE <<"false">>
dump_list(n, key, items) ==
    Hdr(n, key) \o Concat([i \in DOMAIN items |-> Ind(n) \o <<"-", " ">> \o items[i] \o <<"\n">>])

dump_credentials(n, m) ==
    KV(n, "consumer_key", m.consumer_key)
    \o (IF "endpoint" \in DOMAIN m THEN KV(n, "endpoint", m.endpoint) ELSE <<>>)
    \o (IF "metadata_url" \in DOMAIN m THEN KV(n, "metadata_url", m.metadata_url) ELSE <<>>)
    \o KV(n, "token_key", m.token_key) \o KV(n, "token_secret", m.token_secret)
    \o (IF "type" \in DOMAIN m THEN KV(n, "type", m.type) ELSE <<>>)

dump_mirror(m) ==
    <<"-", " ">> \o dump_list(0, "arches", [i \in DOMAIN m.arches |-> <<m.arches[i]>>])
    \o Hdr(2, "failsafe") \o KV(4, "primary", m.failsafe.primary)
    \o KV(4, "security", m.failsafe.security)
    \o Hdr(2, "search") \o dump_list(4, "primary", m.search.primary)
    \o dump_list(4, "security", m.search.security)

dump_archive_list(n, key, l) ==
    Hdr(n, key) \o Ind(n) \o <<"-", " ">>
    \o dump_list(0, "arches", [i \in DOMAIN l[1].arches |-> <<l[1].arches[i]>>])
    \o KV(n + 2, "uri", l[1].uri)

RECURSIVE dump_sources(_, _)
dump_sources(sources, names) ==
    IF names = {} THEN <<>>
    ELSE LET name == CHOOSE x \in names : TRUE
             e == sources[name]
         IN  Ind(4) \o name \o <<":", "\n">>
             \o (IF "key" \in DOMAIN e THEN KV(6, "key", e.key) ELSE <<>>)
             \o (IF "source" \in DOMAIN e THEN KV(6, "source", e.source) ELSE <<>>)
             \o dump_sources(sources, names \ {name})

dump_apt(apt) ==
    (IF "disable_suites" \in DOMAIN apt
     THEN dump_list(2, "disable_suites", apt.disable_suites) ELSE <<>>)
    \o KV(2, "preserve_sources_list", dump_bool(apt.preserve_sources_list))
    \o dump_archive_list(2, "primary", apt.primary)
    \o (IF "proxy" \in DOMAIN apt THEN KV(2, "proxy", apt.proxy) ELSE <<>>)
    \o dump_archive_list(2, "security", apt.security)
    \o (IF "sources" \in DOMAIN apt
        THEN Hdr(2, "sources") \o dump_sources(apt.sources, DOMAIN apt.sources) ELSE <<>>)

dump_power_state(ps) ==
    (IF "condition" \in DOMAIN ps THEN KV(2, "condition", ps.condition) ELSE <<>>)
    \o KV(2, "delay", ps.delay) \o KV(2, "mode", ps.mode)
    \o KV(2, "timeout", str_int(ps.timeout))

dump_section(cfg, key) ==
    CASE key = "apt" -> Hdr(0, key) \o dump_apt(cfg[key])
      [] key \in {"apt_proxy"} -> KV(0, key, cfg[key])
      [] key \in {"apt_preserve_sources_list", "manage_etc_hosts", "manual_cache_clean"}
            -> KV(0, key, dump_bool(cfg[key]))
      [] key = "datasource" -> Hdr(0, key) \o Hdr(2, "MAAS") \o dump_credentials(4, cfg[key].MAAS)
      [] key = "reporting" -> Hdr(0, key) \o Hdr(2, "maas") \o dump_credentials(4, cfg[key].maas)
      [] key = "rsyslog" -> Hdr(0, key) \o Hdr(2, "remotes") \o KV(4, "maas", cfg[key].remotes.maas)
      [] key = "power_state" -> Hdr(0, key) \o dump_power_state(cfg[key])
      [] key = "system_info" ->
            Hdr(0, key) \o Hdr(2, "package_mirrors")
            \o Concat([i \in DOMAIN cfg[key].package_mirrors |->
                          dump_mirror(cfg[key].package_mirrors[i])])

SortedKeys ==
    <<"apt", "apt_preserve_sources_list", "apt_proxy", "datasource", "manage_etc_hosts",
      "manual_cache_clean", "power_state", "reporting", "rsyslog", "system_info">>

safe_dump(cfg) ==
    Concat([i \in DOMAIN SortedKeys |->
               IF SortedKeys[i] \in DOMAIN cfg THEN dump_section(cfg, SortedKeys[i]) ELSE <<>>])

\* ------------------------------------------------------- CredentialEncoder
debconf_escape_newlines_first(text) ==
    replace(replace(text, "\n", <<"\\", "n">>), "\\", <<"\\", "\\">>)

debconf_escape_backslashes_only(text) == replace(text, "\\", <<"\\", "\\">>)

\* local_config_yaml.replace("\\", "\\\\").replace("\n", "\\n")
debconf_escape(text) == replace(replace(text, "\\", <<"\\", "\\">>), "\n", <<"\\", "n">>)

credentials_query(token) ==
    urlencode(<<<<"oauth_consumer_key", token.consumer_key>>,
                <<"oauth_token_key", token.key>>,
                <<"oauth_token_secret", token.secret>>>>)

\* '\n'.join("cloud-init   cloud-init/%s  %s %s" % item for item in preseed_items)
RECURSIVE preseed_lines(_)
preseed_lines(items) ==
    IF items = <<>> THEN <<>>
    ELSE <<"cloud-init", " ", " ", " ", "cloud-init/", Head(items)[1], " ", " ",
           Head(items)[2], " ">> \o Head(items)[3]
         \o (IF Tail(items) = <<>> THEN <<>> ELSE <<"\n">> \o preseed_lines(Tail(items)))

\* ------------------------------------------------------------ the builders
debconf_config_without_system_info(node, token, base_url) ==
    [manage_etc_hosts |-> FALSE,
     apt_preserve_sources_list |-> TRUE,
     manual_cache_clean |-> TRUE,
     reporting |-> reporting_block(node, token, base_url)]

\* compose_cloud_init_preseed up to the proxy lookup: `config`
debconf_config(node, token, base_url) ==
    update([manage_etc_hosts |-> FALSE,
            apt_preserve_sources_list |-> TRUE,
            manual_cache_clean |-> TRUE,
            reporting |-> reporting_block(node, token, base_url)],
           get_system_info)

\* compose_cloud_init_preseed from the archive configuration to the return
debconf_document(config, archives, token, base_url) ==
    LET local_config_yaml == safe_dump(update(config, archives))
        local_config == debconf_escape(local_config_yaml)
    IN  preseed_lines(<<
            <<"datasources", "multiselect", <<"MAAS">>>>,
            <<"maas-metadata-url", "string", absolute_reverse("metadata", <<>>, base_url)>>,
            <<"maas-metadata-credentials", "string", credentials_query(token)>>,
            <<"local-cloud-config", "string", local_config>>
        >>)

compose_commissioning_preseed_tests_status_after(node, base_url) ==
    [metadata_url |-> absolute_reverse("metadata", <<>>, base_url),
     poweroff |-> node.status # ENTERING_RESCUE_MODE,
     poweroff_timeout |-> IF node.status = ENTERING_RESCUE_MODE
                          THEN POWEROFF_TIMEOUT_WEEK ELSE POWEROFF_TIMEOUT_HOUR,
     poweroff_condition |-> Some(PoweroffCondition)]

\* PowerOffPolicy: the keyword arguments compose_commissioning_preseed passes
compose_commissioning_preseed(node, base_url) ==
    [metadata_url |-> absolute_reverse("metadata", <<>>, base_url),
     poweroff |-> node.status # ENTERING_RESCUE_MODE,
     poweroff_timeout |-> IF node.status = DISK_ERASING
                          THEN POWEROFF_TIMEOUT_WEEK ELSE POWEROFF_TIMEOUT_HOUR,
     poweroff_condition |-> Some(PoweroffCondition)]

compose_curtin_preseed_as_commissioning(node, base_url) ==
    compose_commissioning_preseed(node, base_url)

\* the arguments compose_curtin_preseed passes (the rest are the defaults)
compose_curtin_preseed(node, base_url) ==
    [metadata_url |-> absolute_reverse("curtin-metadata", <<>>, base_url),
     poweroff |-> FALSE,
     poweroff_timeout |-> POWEROFF_TIMEOUT_HOUR,
     poweroff_condition |-> None]

\* _compose_cloud_init_preseed up to the proxy lookup: `cloud_config`
cloud_init_config(node, token, metadata_url, base_url) ==
    update([datasource |-> [MAAS |-> [metadata_url |-> metadata_url,
                                      consumer_key |-> token.consumer_key,
                                      token_key |-> token.key,
                                      token_secret |-> token.secret]],
            reporting |-> reporting_block(node, token, base_url),
            rsyslog |-> [remotes |-> [maas |-> get_rsyslog_host_port(node)]]],
           get_system_info)

\* _compose_cloud_init_preseed from the archive configuration to the dump
cloud_init_final(config, archives, args) ==
    LET c1 == update(config, archives)
        ps0 == [delay |-> <<"now">>, mode |-> <<"poweroff">>, timeout |-> args.poweroff_timeout]
        ps == IF ~args.poweroff_condition.isNone
              THEN ("condition" :> args.poweroff_condition.text) @@ ps0 ELSE ps0
    IN  IF args.poweroff THEN update(c1, "power_state" :> ps) ELSE c1

cloud_init_document(config) == CloudConfigMarker \o <<"\n">> \o safe_dump(config)

_get_metadata_url(preseed_type, base_url) ==
    IF preseed_type = CURTIN
    THEN absolute_reverse("curtin-metadata", <<>>, base_url)
    ELSE absolute_reverse("metadata", <<>>, base_url)

\* ------------------------------------------------------------------- state
VARIABLES
    preseed_type,       \* the request kind
    node,               \* the machine: status, distro_series, system_id, rack_host
    enable_http_proxy,  \* configuration store: Config "enable_http_proxy"
    http_proxy,         \* configuration store: Config "http_proxy" (optional text)
    default_archive,    \* record store: the default archive of the machine's architecture
    repositories,       \* record store: the additional repositories of the architecture
    os_delegate,        \* how get_preseed_data behaves for this machine
    pc,                 \* where the composition is
    builder,            \* the local builder that runs: "none" until one is entered
    args,               \* the arguments the builder was called with
    caller,             \* who called get_apt_proxy_for_node: "builder" or "archive"
    apt_proxy,          \* the builder's apt_proxy
    archive,            \* get_archive_config's archive
    archive_proxy,      \* get_archive_config's apt_proxy
    cloud_config,       \* the builder's configuration structure
    delegate_calls,     \* the calls of get_preseed_data made so far
    result              \* what compose_preseed returned or raised

vars == <<preseed_type, node, enable_http_proxy, http_proxy, default_archive, repositories,
          os_delegate, pc, builder, args, caller, apt_proxy, archive, archive_proxy,
          cloud_config, delegate_calls, result>>

inputs == <<preseed_type, node, enable_http_proxy, http_proxy, default_archive,
            repositories, os_delegate>>

NoResult == [kind |-> "none", text |-> <<>>, error |-> ""]
Document(text) == [kind |-> "document", text |-> text, error |-> ""]
Raised(error) == [kind |-> "error", text |-> <<>>, error |-> error]

NoArgs == [metadata_url |-> <<>>, poweroff |-> FALSE, poweroff_timeout |-> 0,
           poweroff_condition |-> None]
NoArchive == [configured |-> FALSE, url |-> <<>>, key |-> <<>>, disabled_pockets |-> <<>>]

\* ------------------------------------------------------------ input domains
ProxySymbols == {" ", "\t", "http://proxy.example/"}
ProxyValues == {None} \cup {Some(t) : t \in SeqsUpTo(ProxySymbols, MaxProxyLen)}

Nodes(statuses) ==
    {[status |-> st, distro_series |-> <<"xenial">>, system_id |-> <<"abc123">>,
      rack_host |-> <<"rack.maas">>] : st \in statuses}

Archives ==
    {NoArchive,
     [configured |-> TRUE, url |-> <<"http://", "mirror.example/ubuntu">>, key |-> <<>>,
      disabled_pockets |-> <<>>],
     [configured |-> TRUE, url |-> <<"http://", "mirror.example/ubuntu">>, key |-> <<"KEY">>,
      disabled_pockets |-> <<<<"backports">>>>]}

OsOutcomes ==
    {[tag |-> "ok", data |-> <<"os-preseed", "\n", "late_command">>],
     [tag |-> "NotImplementedError", data |-> <<>>],
     [tag |-> "NoSuchOperatingSystem", data |-> <<>>],
     [tag |-> "NoConnectionsAvailable", data |-> <<>>]}

GenericUrl == <<"http://", "repo.example/ubuntu">>
PpaUrl == <<"ppa:", "team/stable">>
PpaHostUrl == <<"http://", "ppa.launchpad.net", "/team/stable/ubuntu">>

Repo(name, id, url, key, components, distributions) ==
    [name |-> name, id |-> id, url |-> url, key |-> key, components |-> components,
     distributions |-> distributions]

\* a few repository lists for the dispatch specification
SomeRepositories ==
    {<<>>,
     <<Repo(<<"A", "!", " ", "ppa">>, 1, PpaUrl, <<>>, <<>>, <<>>)>>,
     <<Repo(<<"mirror">>, 2, GenericUrl, <<"K2">>, <<<<"main">>, <<"universe">>>>,
            <<<<"xenial">>, <<"xenial-updates">>>>),
       Repo(<<"mirror">>, 12, PpaHostUrl, <<>>, <<>>, <<>>)>>}

\* the repository lists of the repository-builder specification
NameSymbols == {"A", " ", "!", "_", "1"}
RepoNames == SeqsUpTo(NameSymbols, MaxNameLen)
RepoIds == {1, 2, 12}
ComponentNames == {<<"main">>, <<"universe">>}
DistributionNames == {<<"xenial">>, <<"xenial-updates">>}

SingleRepositories ==
    {<<Repo(<<"repo">>, 2, url, key, cs, ds)>> :
        url \in {GenericUrl, PpaUrl, PpaHostUrl}, key \in {<<>>, <<"K1">>},
        cs \in SeqsUpTo(ComponentNames, MaxComponents),
        ds \in SeqsUpTo(DistributionNames, MaxDistributions)}

\* two generic repositories that differ in identifier and signing key
RepositoryPair(n1, n2, ids) ==
    <<Repo(n1, ids[1], GenericUrl, <<"K1">>, <<>>, <<>>),
      Repo(n2, ids[2], GenericUrl, <<"K2">>, <<>>, <<>>)>>

\* the proxy values of the escaping specification: texts with backslashes,
\* newlines and the letter n
EscapeSymbols == {"\\", "\n", "n", "x"}
EscapeTexts == SeqsUpTo(EscapeSymbols, MaxEscapeLen)

\* -------------------------------------------------------------------- Init
InitWith(types, statuses, outcomes, flags, proxies, archives, repoLists) ==
    /\ preseed_type \in types
    /\ node \in Nodes(statuses)
    /\ os_delegate \in outcomes
    /\ enable_http_proxy \in flags
    /\ http_proxy \in proxies
    /\ default_archive \in archives
    /\ repositories \in repoLists
    /\ pc = "SelectFormat"
    /\ builder = "none"
    /\ args = NoArgs
    /\ caller = "none"
    /\ apt_proxy = None
    /\ archive = NoArchive
    /\ archive_proxy = None
    /\ cloud_config = EmptyDict
    /\ delegate_calls = <<>>
    /\ result = NoResult

Init == InitWith(PRESEED_TYPE, NODE_STATUS, OsOutcomes, BOOLEAN, ProxyValues, Archives,
                 SomeRepositories)

\* ----------------------------------------------------------------- actions
base_url == rack_url(node)

select_format_always_delegates(type) == "DelegateToOS"

\* compose_preseed: `if preseed_type == PRESEED_TYPE.COMMISSIONING`
select_format(type) == IF type = COMMISSIONING THEN "BuildCloudInit" ELSE "DelegateToOS"

\* compose_preseed: token, base_url, and the test of the request kind
SelectFormat ==
    /\ pc = "SelectFormat"
    /\ IF select_format(preseed_type) = "BuildCloudInit"
       THEN /\ pc' = "BuildCloudInit"
            /\ builder' = "commissioning"
            /\ args' = compose_commissioning_preseed(node, base_url)
       ELSE /\ pc' = "DelegateToOS"
            /\ UNCHANGED <<builder, args>>
    /\ UNCHANGED <<inputs, caller, apt_proxy, archive, archive_proxy, cloud_config,
                   delegate_calls, result>>

after_delegate_falls_back_when_unreachable(outcome, type) ==
    CASE outcome.tag = "ok" -> [pc |-> "Done", builder |-> "none", result |-> Document(outcome.data)]
      [] outcome.tag \in {"NotImplementedError", "NoConnectionsAvailable"} ->
            IF type = CURTIN
            THEN [pc |-> "BuildCloudInit", builder |-> "curtin", result |-> NoResult]
            ELSE [pc |-> "BuildDebconfFallback", builder |-> "debconf", result |-> NoResult]
      [] OTHER -> [pc |-> "Failed", builder |-> "none", result |-> Raised(outcome.tag)]

\* where compose_preseed goes with what get_preseed_data returned or raised
after_delegate(outcome, type) ==
    CASE outcome.tag = "ok" -> [pc |-> "Done", builder |-> "none", result |-> Document(outcome.data)]
      [] outcome.tag = "NotImplementedError" ->
            IF type = CURTIN
            THEN [pc |-> "BuildCloudInit", builder |-> "curtin", result |-> NoResult]
            ELSE [pc |-> "BuildDebconfFallback", builder |-> "debconf", result |-> NoResult]
      [] OTHER -> [pc |-> "Failed", builder |-> "none", result |-> Raised(outcome.tag)]

\* compose_preseed: the call of the OS-specific delegate
DelegateToOS ==
    /\ pc = "DelegateToOS"
    /\ delegate_calls' = Append(delegate_calls,
                                [preseed_type |-> preseed_type,
                                 metadata_url |-> _get_metadata_url(preseed_type, base_url)])
    /\ LET next == after_delegate(os_delegate, preseed_type)
       IN  /\ pc' = next.pc
           /\ builder' = next.builder
           /\ result' = next.result
           /\ args' = IF next.builder = "curtin"
                      THEN compose_curtin_preseed(node, base_url) ELSE args
    /\ UNCHANGED <<inputs, caller, apt_proxy, archive, archive_proxy, cloud_config>>

\* _compose_cloud_init_preseed up to its call of get_apt_proxy_for_node
BuildCloudInit ==
    /\ pc = "BuildCloudInit"
    /\ cloud_config' = cloud_init_config(node, Token, args.metadata_url, base_url)
    /\ caller' = "builder"
    /\ pc' = "ReadProxyFlag"
    /\ UNCHANGED <<inputs, builder, args, apt_proxy, archive, archive_proxy,
                   delegate_calls, result>>

\* compose_cloud_init_preseed up to its call of get_apt_proxy_for_node
BuildDebconfFallback ==
    /\ pc = "BuildDebconfFallback"
    /\ cloud_config' = debconf_config(node, Token, base_url)
    /\ caller' = "builder"
    /\ pc' = "ReadProxyFlag"
    /\ UNCHANGED <<inputs, builder, args, apt_proxy, archive, archive_proxy,
                   delegate_calls, result>>

\* get_apt_proxy_for_node returns `value` to its caller
ReturnProxy(value) ==
    IF caller = "builder"
    THEN /\ apt_proxy' = value
         /\ cloud_config' = IF Truthy(value)
                            THEN update(cloud_config, "apt_proxy" :> value.text)
                            ELSE cloud_config
         /\ pc' = "LookupArchive"
         /\ UNCHANGED archive_proxy
    ELSE /\ archive_proxy' = value
         /\ pc' = "Emit"
         /\ UNCHANGED <<apt_proxy, cloud_config>>

\* get_apt_proxy_for_node: the read of "enable_http_proxy"
ReadProxyFlag ==
    /\ pc = "ReadProxyFlag"
    /\ IF enable_http_proxy
       THEN /\ pc' = "ReadProxyValue"
            /\ UNCHANGED <<apt_proxy, archive_proxy, cloud_config>>
       ELSE ReturnProxy(get_apt_proxy_for_node(FALSE, http_proxy, node))
    /\ UNCHANGED <<inputs, builder, args, caller, archive, delegate_calls, result>>

\* get_apt_proxy_for_node: the read of "http_proxy" and the choice of the value
ReadProxyValue ==
    /\ pc = "ReadProxyValue"
    /\ ReturnProxy(get_apt_proxy_for_node(TRUE, http_proxy, node))
    /\ UNCHANGED <<inputs, builder, args, caller, archive, delegate_calls, result>>

\* PackageRepository.objects.get_default_archive(arch): fails if unconfigured
get_default_archive(stored) ==
    IF stored.configured THEN [ok |-> TRUE, archive |-> stored]
    ELSE [ok |-> FALSE, archive |-> NoArchive]

archive_lookup_failure_swallowed(found) ==
    [pc |-> "ReadProxyFlag", caller |-> "archive", result |-> NoResult]

\* get_archive_config and its callers up to compose_preseed handle no failure
\* of the lookup: it reaches the caller of compose_preseed
archive_lookup_outcome(found) ==
    IF found.ok
    THEN [pc |-> "ReadProxyFlag", caller |-> "archive", result |-> NoResult]
    ELSE [pc |-> "Failed", caller |-> "builder", result |-> Raised("ConfigurationError")]

\* get_archive_config: the lookups, up to its call of get_apt_proxy_for_node
LookupArchive ==
    /\ pc = "LookupArchive"
    /\ LET found == get_default_archive(default_archive)
           next == archive_lookup_outcome(found)
       IN  /\ archive' = found.archive
           /\ caller' = next.caller
           /\ pc' = next.pc
           /\ result' = next.result
    /\ UNCHANGED <<inputs, builder, args, apt_proxy, archive_proxy, cloud_config,
                   delegate_calls>>

\* the document a builder returns once get_archive_config has its proxy
emit(which, config, archives, call_args, token, url) ==
    IF which = "debconf"
    THEN [config |-> update(config, archives),
          text |-> debconf_document(config, archives, token, url)]
    ELSE LET final == cloud_init_final(config, archives, call_args)
         IN  [config |-> final, text |-> cloud_init_document(final)]

\* the rest of get_archive_config and of the builder that called it
Emit ==
    /\ pc = "Emit"
    /\ LET archives == get_archive_config(node, FALSE, archive, repositories, archive_proxy)
           out == emit(builder, cloud_config, archives, args, Token, base_url)
       IN  /\ cloud_config' = out.config
           /\ result' = Document(out.text)
    /\ pc' = "Done"
    /\ UNCHANGED <<inputs, builder, args, caller, apt_proxy, archive, archive_proxy,
                   delegate_calls>>

LocalBuild ==
    SelectFormat \/ BuildCloudInit \/ ReadProxyFlag \/ ReadProxyValue \/ LookupArchive \/ Emit

Next == LocalBuild \/ DelegateToOS \/ BuildDebconfFallback

Spec == Init /\ [][Next]_vars

\* ================================================================== claims
Finished == pc \in {"Done", "Failed"}
DelegateSays(tag) == os_delegate.tag = tag
ArchiveMissing == ~default_archive.configured

\* the lines of a text: the runs between newlines
RECURSIVE SplitLines(_)
SplitLines(text) ==
    IF \A i \in DOMAIN text : text[i] # "\n" THEN <<text>>
    ELSE LET k == CHOOSE i \in DOMAIN text :
                      text[i] = "\n" /\ \A j \in 1..(i - 1) : text[j] # "\n"
         IN  <<SubSeq(text, 1, k - 1)>> \o SplitLines(SubSeq(text, k + 1, Len(text)))

\* C1: a COMMISSIONING request never reaches the OS delegate, whatever the
\* delegate would have answered: the composition never stands at DelegateToOS,
\* no call of the delegate is made, and what it returns is the document the
\* commissioning builder built, starting with the "#cloud-config" line.
C1_CommissioningNeverDelegates ==
    preseed_type = COMMISSIONING =>
        /\ pc # "DelegateToOS"
        /\ delegate_calls = <<>>
        /\ pc # "SelectFormat" => builder = "commissioning"
        /\ pc = "Done" =>
              /\ result.kind = "document"
              /\ SplitLines(result.text)[1] = CloudConfigMarker
              /\ result.text # os_delegate.data
        /\ pc = "Failed" => result = Raised("ConfigurationError")

C1_Witness ==
    /\ preseed_type = COMMISSIONING
    /\ DelegateSays("ok")
    /\ pc = "Done"
    /\ result.kind = "document"
    /\ startswith(result.text, CloudConfigMarker \o <<"\n">>)

\* C2: a non-commissioning request calls the OS delegate exactly once, and an
\* outcome other than not-implemented is the outcome of the composition: the
\* delegate's bytes unchanged, or the same failure; no local builder runs and
\* the delegate is not called again.
C2_DelegateOutcomeIsFinal ==
    /\ Len(delegate_calls) <= 1
    /\ (preseed_type # COMMISSIONING /\ pc \notin {"SelectFormat", "DelegateToOS"}) =>
          /\ Len(delegate_calls) = 1
          /\ delegate_calls[1].preseed_type = preseed_type
          /\ DelegateSays("ok") =>
                pc = "Done" /\ result = Document(os_delegate.data) /\ builder = "none"
          /\ (DelegateSays("NoSuchOperatingSystem") \/ DelegateSays("NoConnectionsAvailable")) =>
                pc = "Failed" /\ result = Raised(os_delegate.tag) /\ builder = "none"
                /\ cloud_config = EmptyDict

C2_Witness ==
    /\ preseed_type = DEFAULT
    /\ DelegateSays("NoConnectionsAvailable")
    /\ pc = "Failed"
    /\ result = Raised("NoConnectionsAvailable")
    /\ Len(delegate_calls) = 1

CloudInitKeys == {"datasource", "reporting", "rsyslog", "system_info", "apt"}

\* C3: CURTIN with a not-implemented delegate returns a "#cloud-config"
\* document with the commissioning blocks (datasource, reporting, rsyslog,
\* system_info, apt, and apt_proxy exactly when a proxy is resolved), whose
\* datasource metadata URL is the curtin metadata endpoint, and with no
\* power_state key, for every machine status.
C3_CurtinFallback ==
    (preseed_type = CURTIN /\ DelegateSays("NotImplementedError") /\ pc = "Done") =>
        /\ result.kind = "document"
        /\ SplitLines(result.text)[1] = CloudConfigMarker
        /\ DOMAIN cloud_config =
              CloudInitKeys \cup (IF Truthy(apt_proxy) THEN {"apt_proxy"} ELSE {})
        /\ cloud_config.datasource.MAAS.metadata_url =
              rack_url(node) \o <<"/MAAS/metadata/curtin/">>
        /\ "power_state" \notin DOMAIN cloud_config
        /\ \A i \in DOMAIN result.text : result.text[i] \notin {"power_state", "poweroff"}
        /\ contains(result.text, <<"metadata_url", ":", " ">> \o rack_url(node)
                                     \o <<"/MAAS/metadata/curtin/">>)

C3_Witness ==
    /\ preseed_type = CURTIN
    /\ DelegateSays("NotImplementedError")
    /\ node.status = DISK_ERASING
    /\ pc = "Done"
    /\ result.kind = "document"
    /\ "power_state" \notin DOMAIN cloud_config
    /\ "apt_proxy" \in DOMAIN cloud_config

DebconfPrefix(key, type) ==
    <<"cloud-init", " ", " ", " ", "cloud-init/", key, " ", " ", type, " ">>

\* C4: the debconf fallback (kind neither COMMISSIONING nor CURTIN, delegate
\* not implemented) is exactly four lines, in order: datasources with value
\* MAAS, maas-metadata-url, maas-metadata-credentials (URL-encoded), and
\* local-cloud-config; the dumped structure has newlines of its own and none
\* of them starts a line of the document.
C4_DebconfFourLines ==
    (preseed_type \notin {COMMISSIONING, CURTIN} /\ DelegateSays("NotImplementedError")
        /\ pc = "Done") =>
        LET lines == SplitLines(result.text)
        IN  /\ result.kind = "document"
            /\ Len(lines) = 4
            /\ lines[1] = DebconfPrefix("datasources", "multiselect") \o <<"MAAS">>
            /\ lines[2] = DebconfPrefix("maas-metadata-url", "string")
                             \o rack_url(node) \o <<"/MAAS/metadata/">>
            /\ lines[3] = DebconfPrefix("maas-metadata-credentials", "string")
                             \o <<"oauth_consumer_key", "=", "ck", "&", "oauth_token_key", "=",
                                  "tk", "&", "oauth_token_secret", "=", "ts">>
            /\ startswith(lines[4], DebconfPrefix("local-cloud-config", "string"))
            /\ Len(SplitLines(safe_dump(cloud_config))) > 1
            /\ Len(lines[4]) >= Len(safe_dump(cloud_config))

C4_Witness ==
    /\ preseed_type = DEFAULT
    /\ DelegateSays("NotImplementedError")
    /\ pc = "Done"
    /\ Len(SplitLines(result.text)) = 4
    /\ Len(repositories) = 2
    /\ contains(safe_dump(cloud_config), <<"main", " ", "universe", "\n">>)

DebconfKeys ==
    {"manage_etc_hosts", "apt_preserve_sources_list", "manual_cache_clean", "reporting",
     "system_info", "apt"}

DebconfDone ==
    preseed_type \notin {COMMISSIONING, CURTIN} /\ DelegateSays("NotImplementedError")
        /\ pc = "Done"

\* C5 as claimed: the structure of the debconf fallback holds system_info, the
\* proxy when one is resolved, reporting, the apt block with
\* preserve_sources_list true, and a datasource entry with the metadata
\* endpoint and the credentials.
C5_AsClaimed ==
    DebconfDone =>
        /\ {"system_info", "reporting", "apt"} \subseteq DOMAIN cloud_config
        /\ Truthy(apt_proxy) => "apt_proxy" \in DOMAIN cloud_config
        /\ cloud_config.apt.preserve_sources_list = TRUE
        /\ "datasource" \in DOMAIN cloud_config

\* C5 amended: the structure holds system_info, reporting (the status endpoint
\* and the three credential fields), apt_proxy exactly when a proxy is
\* resolved, and the apt block built with preserve_sources_list false beside a
\* top-level apt_preserve_sources_list that is true; it holds no datasource
\* entry: the metadata endpoint and the URL-encoded credentials are the second
\* and third lines of the document.
C5_DebconfStructure ==
    DebconfDone =>
        /\ DOMAIN cloud_config =
              DebconfKeys \cup (IF Truthy(apt_proxy) THEN {"apt_proxy"} ELSE {})
        /\ Truthy(apt_proxy) => cloud_config.apt_proxy = apt_proxy.text
        /\ cloud_config.system_info.package_mirrors[1].search.primary = <<MainArchiveUrl>>
        /\ cloud_config.reporting.maas.endpoint =
              rack_url(node) \o <<"/MAAS/metadata/status/">> \o node.system_id
        /\ cloud_config.reporting.maas.consumer_key = <<"ck">>
        /\ cloud_config.reporting.maas.token_key = <<"tk">>
        /\ cloud_config.reporting.maas.token_secret = <<"ts">>
        /\ cloud_config.apt.preserve_sources_list = FALSE
        /\ cloud_config.apt_preserve_sources_list = TRUE
        /\ cloud_config.apt.primary[1].uri = default_archive.url
        /\ "datasource" \notin DOMAIN cloud_config
        /\ contains(SplitLines(result.text)[2], rack_url(node) \o <<"/MAAS/metadata/">>)
        /\ contains(SplitLines(result.text)[3], <<"oauth_token_secret", "=", "ts">>)
        /\ contains(result.text, <<"system_info", ":", "\\", "n">>)

C5_Witness ==
    /\ DebconfDone
    /\ Truthy(apt_proxy)
    /\ "apt_proxy" \in DOMAIN cloud_config
    /\ cloud_config.apt.preserve_sources_list = FALSE
    /\ "sources" \in DOMAIN cloud_config.apt

\* C6: the commissioning document has a power_state block iff the status is
\* not "entering rescue mode"; its timeout is 604800 for "disk erasing" and
\* 3600 for every other status, and its condition is the test that the
\* sentinel file is absent.
C6_PowerOffPolicy ==
    (preseed_type = COMMISSIONING /\ pc = "Done") =>
        /\ "power_state" \in DOMAIN cloud_config <=> node.status # ENTERING_RESCUE_MODE
        /\ contains(result.text, <<"power_state", ":", "\n">>)
              <=> node.status # ENTERING_RESCUE_MODE
        /\ "power_state" \in DOMAIN cloud_config =>
              /\ cloud_config.power_state.timeout =
                    IF node.status = DISK_ERASING THEN 604800 ELSE 3600
              /\ cloud_config.power_state.mode = <<"poweroff">>
              /\ "condition" \in DOMAIN cloud_config.power_state
              /\ cloud_config.power_state.condition =
                    <<"test", " ", "!", " ", "-e", " ", "/tmp/block-poweroff">>
              /\ contains(result.text,
                          <<"timeout", ":", " ">> \o
                          (IF node.status = DISK_ERASING
                           THEN <<"6", "0", "4", "8", "0", "0">> ELSE <<"3", "6", "0", "0">>)
                          \o <<"\n">>)

C6_Witness ==
    /\ preseed_type = COMMISSIONING
    /\ pc = "Done"
    /\ node.status = DISK_ERASING
    /\ cloud_config.power_state.timeout = 604800

AllWhitespace(text) == \A i \in DOMAIN text : text[i] \in {" ", "\t", "\n"}
RackProxy == Some(<<"http://", "rack.maas", ":8000/">>)

\* what the claim says the resolution is, for the store as it stands
ClaimedProxy(value) ==
    /\ ~enable_http_proxy => value = None
    /\ (enable_http_proxy /\ ~http_proxy.isNone /\ ~AllWhitespace(http_proxy.text)) =>
          value = http_proxy
    /\ (enable_http_proxy /\ (http_proxy.isNone \/ AllWhitespace(http_proxy.text))) =>
          value = RackProxy

\* C7: proxy resolution: flag off gives no proxy whatever the configured value;
\* flag on with a value that is not empty and not all whitespace gives that
\* value unchanged; flag on with an absent, empty or all-whitespace value gives
\* http://<rack-host>:8000/.  Both resolutions of a composition (the builder's
\* and get_archive_config's) are checked where they return.
C7_ProxyResolution ==
    /\ pc = "LookupArchive" => ClaimedProxy(apt_proxy)
    /\ pc = "Emit" => ClaimedProxy(archive_proxy)

C7_Witness ==
    /\ pc = "LookupArchive"
    /\ enable_http_proxy
    /\ http_proxy = Some(<<" ", "\t">>)
    /\ apt_proxy = RackProxy

\* C8 as claimed: with no default archive, every composition ends in the
\* configuration error and returns no document.
C8_AsClaimed ==
    (Finished /\ ArchiveMissing) => (pc = "Failed" /\ result = Raised("ConfigurationError"))

\* C8 amended: a local builder returns a document only if a default archive is
\* configured: whenever a local builder runs (COMMISSIONING, or the delegate
\* is not implemented) and there is no default archive, the composition ends in
\* the configuration error, returns no document and takes no further step.
\* When the delegate succeeds, or fails as unknown-OS or unreachable, the
\* archive is never looked up and the delegate's outcome is the outcome.
C8_LocalBuildNeedsArchive ==
    /\ (Finished /\ ArchiveMissing) =>
          IF builder # "none"
          THEN pc = "Failed" /\ result = Raised("ConfigurationError")
          ELSE /\ preseed_type # COMMISSIONING
               /\ ~DelegateSays("NotImplementedError")
               /\ result = IF DelegateSays("ok") THEN Document(os_delegate.data)
                           ELSE Raised(os_delegate.tag)
    /\ (pc = "Done" /\ builder # "none") => default_archive.configured
    /\ pc = "Failed" => ~ENABLED Next

C8_Witness ==
    /\ ArchiveMissing
    /\ preseed_type = CURTIN
    /\ DelegateSays("NotImplementedError")
    /\ pc = "Failed"
    /\ result = Raised("ConfigurationError")

\* ------------------------------------- the repository-builder specification
\* One commissioning composition for each repository list: the inputs of
\* get_archive_config and make_clean_repo_name range over the lists above.
InitRepoWith(repoLists) ==
    InitWith({COMMISSIONING}, {"COMMISSIONING"},
             {[tag |-> "NotImplementedError", data |-> <<>>]}, {TRUE}, {None},
             {a \in Archives : a.configured /\ a.key # <<>>}, repoLists)

InitRepo ==
    \/ InitRepoWith(SingleRepositories)
    \/ \E n1 \in RepoNames :
          \E n2 \in RepoNames \cup {lower(n1)} :
             \E ids \in {p \in RepoIds \X RepoIds : p[1] < p[2]} :
                InitRepoWith({RepositoryPair(n1, n2, ids)})

SpecRepo == InitRepo /\ [][LocalBuild]_vars

\* the claim's own reading of a generic repository
IsGeneric(repo) ==
    /\ repo.url[1] # "ppa:"
    /\ \A i \in DOMAIN repo.url : repo.url[i] # "ppa.launchpad.net"

\* sep.join(texts)
RECURSIVE JoinWith(_, _)
JoinWith(texts, sep) ==
    IF texts = <<>> THEN <<>>
    ELSE IF Len(texts) = 1 THEN texts[1]
    ELSE texts[1] \o sep \o JoinWith(Tail(texts), sep)

ClaimedComponents(repo) ==
    IF repo.components = <<>> THEN <<"main">> ELSE JoinWith(repo.components, <<" ">>)

ClaimedLine(repo, dist) ==
    <<"deb", " ">> \o repo.url \o <<" ">> \o dist \o <<" ">> \o ClaimedComponents(repo)

SourceOf(repo) == cloud_config.apt.sources[make_clean_repo_name(repo)].source

\* C9 as claimed: the source value of a generic repository is its lines
\* `deb <url> <distribution> <components>`, one per listed distribution (one
\* for the machine's series when none is listed), joined by newlines.
C9_AsClaimed ==
    pc = "Done" =>
        \A i \in DOMAIN repositories :
            LET repo == repositories[i]
                dists == IF repo.distributions = <<>>
                         THEN <<node.distro_series>> ELSE repo.distributions
            IN  IsGeneric(repo) =>
                    SourceOf(repo) =
                        JoinWith([k \in DOMAIN dists |-> ClaimedLine(repo, dists[k])], <<"\n">>)

\* C9 amended: with no distribution listed the source value is the one line
\* `deb <url> <series> <components>` with no newline; with distributions listed
\* it is one line per listed distribution, in list order, each line ended by a
\* newline (so the value ends with a newline).  The components string is
\* `main` when none is configured, else the components joined by single
\* spaces, with no leading or trailing space.
C9_GenericSource ==
    pc = "Done" =>
        \A i \in DOMAIN repositories :
            LET repo == repositories[i]
                ds == repo.distributions
            IN  IsGeneric(repo) =>
                    /\ SourceOf(repo) =
                          IF ds = <<>> THEN ClaimedLine(repo, node.distro_series)
                          ELSE Concat([k \in DOMAIN ds |-> ClaimedLine(repo, ds[k]) \o <<"\n">>])
                    /\ ds # <<>> =>
                          /\ Len(SplitLines(SourceOf(repo))) = Len(ds) + 1
                          /\ SplitLines(SourceOf(repo))[Len(ds) + 1] = <<>>
                    /\ \A k \in DOMAIN ds :
                          LET line == SplitLines(SourceOf(repo))[k]
                          IN  line[Len(line)] # " "

C9_Witness ==
    /\ pc = "Done"
    /\ Len(repositories) = 1
    /\ IsGeneric(repositories[1])
    /\ Len(repositories[1].distributions) = 2
    /\ Len(repositories[1].components) = 2
    /\ Len(SplitLines(SourceOf(repositories[1]))) = 3

\* C10: two repositories with the same display name and different identifiers
\* have different sanitized names; the additional-sources map the builder
\* returns has one entry per additional repository (beside the default
\* archive's key entry), each still holding its own repository's key.
C10_SanitizedNamesDiffer ==
    /\ \A i, j \in DOMAIN repositories :
          (repositories[i].name = repositories[j].name
              /\ repositories[i].id # repositories[j].id) =>
             make_clean_repo_name(repositories[i]) # make_clean_repo_name(repositories[j])
    /\ (pc = "Done" /\ builder # "none" /\ repositories # <<>>) =>
          /\ "sources" \in DOMAIN cloud_config.apt
          /\ Cardinality(DOMAIN cloud_config.apt.sources \ {<<"archive_key">>})
                = Len(repositories)
          /\ \A i \in DOMAIN repositories :
                LET name == make_clean_repo_name(repositories[i])
                IN  /\ name \in DOMAIN cloud_config.apt.sources
                    /\ repositories[i].key # <<>> =>
                          cloud_config.apt.sources[name].key = repositories[i].key

C10_Witness ==
    /\ pc = "Done"
    /\ Len(repositories) = 2
    /\ repositories[1].name = <<"A", "!">>
    /\ repositories[2].name = <<"A", "!">>
    /\ DOMAIN cloud_config.apt.sources = {<<"archive_key">>, <<"a", "_", "1">>, <<"a", "_", "2">>}

\* ------------------------------------------------ the escaping specification
\* One debconf fallback composition for each configured proxy text: the text
\* is dumped inside the structure and escaped into the local-config line.
InitEscape ==
    InitWith({DEFAULT}, {"DEPLOYING"}, {[tag |-> "NotImplementedError", data |-> <<>>]},
             {TRUE}, {Some(t) : t \in EscapeTexts},
             {a \in Archives : a.configured /\ a.key # <<>>}, SomeRepositories)

DebconfBuild ==
    \/ SelectFormat \/ DelegateToOS \/ BuildDebconfFallback \/ ReadProxyFlag
    \/ ReadProxyValue \/ LookupArchive \/ Emit

SpecEscape == InitEscape /\ [][DebconfBuild]_vars

\* the value of the local-config line: what follows its key and type
LocalConfigValue ==
    LET k == CHOOSE i \in DOMAIN result.text : result.text[i] = "local-cloud-config"
    IN  SubSeq(result.text, k + 5, Len(result.text))

\* the encoding as the claim states it, symbol by symbol
ClaimedEscape(text) ==
    Concat([i \in DOMAIN text |->
               IF text[i] = "\\" THEN <<"\\", "\\">>
               ELSE IF text[i] = "\n" THEN <<"\\", "n">>
               ELSE <<text[i]>>])

\* the number of backslashes that end right before position i
BackslashesBefore(e, i) ==
    LET j == CHOOSE j \in 0..(i - 1) :
                 /\ j = 0 \/ e[j] # "\\"
                 /\ \A k \in (j + 1)..(i - 1) : e[k] = "\\"
    IN  i - 1 - j

\* decoding left to right: `\\` is a backslash, `\n` a newline
Unescape(e) ==
    Concat([i \in DOMAIN e |->
               IF BackslashesBefore(e, i) % 2 = 1
               THEN (IF e[i] = "n" THEN <<"\n">>
                     ELSE IF e[i] = "\\" THEN <<"\\">> ELSE <<"\\", e[i]>>)
               ELSE IF e[i] = "\\" THEN <<>> ELSE <<e[i]>>])

\* C11: the escaped-document value of the local-config line has no newline,
\* is the dumped document with every backslash doubled and every newline
\* turned into backslash-n and every other symbol unchanged and in order, and
\* decodes left to right back to the dumped document; the same holds of the
\* configured proxy text alone, whose encoding no other text of the same
\* bounded set shares.
C11_EscapeRoundTrip ==
    DebconfDone =>
        LET y == safe_dump(cloud_config)
            e == LocalConfigValue
            t == http_proxy.text
        IN  /\ \A i \in DOMAIN e : e[i] # "\n"
            /\ e = ClaimedEscape(y)
            /\ Unescape(e) = y
            /\ \A i \in DOMAIN debconf_escape(t) : debconf_escape(t)[i] # "\n"
            /\ debconf_escape(t) = ClaimedEscape(t)
            /\ Unescape(debconf_escape(t)) = t
            /\ \A u \in EscapeTexts : u # t => debconf_escape(u) # debconf_escape(t)

C11_Witness ==
    /\ DebconfDone
    /\ http_proxy.text = <<"\\", "\n", "n">>
    /\ contains(safe_dump(cloud_config), <<"apt_proxy", ":", " ", "\\", "\n", "n", "\n">>)
    /\ contains(LocalConfigValue,
                <<"apt_proxy", ":", " ", "\\", "\\", "\\", "n", "n", "\\", "n">>)
    /\ Unescape(LocalConfigValue) = safe_dump(cloud_config)

\* ---------------------------------------------- the concurrent specification
\* Another actor writes the configuration store (Config "enable_http_proxy",
\* "http_proxy") while a composition is in progress; the composition reads the
\* store where the code reads it, with no snapshot of its own.
ChangeConfig ==
    /\ pc \notin {"Done", "Failed"}
    /\ \E flag \in BOOLEAN, value \in ProxyValues :
          /\ <<flag, value>> # <<enable_http_proxy, http_proxy>>
          /\ enable_http_proxy' = flag
          /\ http_proxy' = value
    /\ UNCHANGED <<preseed_type, node, default_archive, repositories, os_delegate, pc,
                   builder, args, caller, apt_proxy, archive, archive_proxy, cloud_config,
                   delegate_calls, result>>

InitConcurrent ==
    InitWith(PRESEED_TYPE, {"COMMISSIONING"},
             {[tag |-> "NotImplementedError", data |-> <<>>]}, BOOLEAN, ProxyValues,
             {a \in Archives : a.configured /\ a.key = <<>>}, {<<>>})

SpecConcurrent == InitConcurrent /\ [][Next \/ ChangeConfig]_vars

\* C12 as claimed: in every document a local builder produced, the top-level
\* apt_proxy entry and the proxy entry of the apt block are both absent, or
\* both present with the same value, also when the configuration store was
\* changed while the composition was in progress.
C12_AsClaimed ==
    (pc = "Done" /\ builder # "none") =>
        /\ "apt_proxy" \in DOMAIN cloud_config <=> "proxy" \in DOMAIN cloud_config.apt
        /\ "apt_proxy" \in DOMAIN cloud_config =>
              cloud_config.apt_proxy = cloud_config.apt.proxy

====
